---- MODULE Spec2Model ----
(***************************************************************************)
(* A model of rotate_backups/__init__.py: the RotateBackups pipeline       *)
(* (collect_backups, group_backups, apply_rotation_scheme,                 *)
(* find_preservation_criteria) and the removal loop of rotate_backups.     *)
(***************************************************************************)
EXTENDS Integers, Sequences, FiniteSets, TLC

\* The bounds of the model: the entries of a directory, the largest
\* retention count, the frequencies a scheme names.
MaxBackups   == 3
MaxRetention == 2
MaxTiers     == 2

(***************************************************************************)
(* Calendar arithmetic of datetime.datetime, as the source uses it.        *)
(* A datetime is the tuple <<year, month, day, hour, minute, second>>.     *)
(***************************************************************************)

IsLeap(y) == (y % 4 = 0) /\ ((y % 100 # 0) \/ (y % 400 = 0))

DaysInMonth(y, m) ==
    IF m = 2 THEN (IF IsLeap(y) THEN 29 ELSE 28)
    ELSE IF m \in {4, 6, 9, 11} THEN 30 ELSE 31

DaysBeforeYear(y) ==
    (y - 1) * 365 + ((y - 1) \div 4) - ((y - 1) \div 100) + ((y - 1) \div 400)

RECURSIVE DaysBeforeMonth(_, _)
DaysBeforeMonth(y, m) ==
    IF m = 1 THEN 0 ELSE DaysBeforeMonth(y, m - 1) + DaysInMonth(y, m - 1)

\* date.toordinal(): 0001-01-01 is day 1.
ToOrdinal(y, m, d) == DaysBeforeYear(y) + DaysBeforeMonth(y, m) + d

RECURSIVE MonthOfYearDay(_, _, _)
MonthOfYearDay(y, m, n) ==
    IF n <= DaysInMonth(y, m) THEN <<m, n>>
    ELSE MonthOfYearDay(y, m + 1, n - DaysInMonth(y, m))

RECURSIVE YearOfOrdinal(_, _)
YearOfOrdinal(y, n) ==
    IF n <= DaysBeforeYear(y) THEN YearOfOrdinal(y - 1, n)
    ELSE IF n > DaysBeforeYear(y + 1) THEN YearOfOrdinal(y + 1, n)
    ELSE y

\* date.fromordinal(n) as <<year, month, day>>.
FromOrdinal(n) ==
    LET y  == YearOfOrdinal((n \div 366) + 1, n)
        md == MonthOfYearDay(y, 1, n - DaysBeforeYear(y))
    IN  <<y, md[1], md[2]>>

\* The constructor datetime.datetime(y, m, d, H, M, S) raises ValueError
\* unless every field is in range.
DatetimeValid(g) ==
    /\ g[1] >= 1 /\ g[1] <= 9999
    /\ g[2] >= 1 /\ g[2] <= 12
    /\ g[3] >= 1 /\ g[3] <= DaysInMonth(g[1], g[2])
    /\ g[4] >= 0 /\ g[4] <= 23
    /\ g[5] >= 0 /\ g[5] <= 59
    /\ g[6] >= 0 /\ g[6] <= 59

\* datetime.__lt__: field by field, most significant first.
RECURSIVE TupleLess(_, _, _)
TupleLess(a, b, i) ==
    IF i > Len(a) THEN FALSE
    ELSE IF a[i] # b[i] THEN a[i] < b[i]
    ELSE TupleLess(a, b, i + 1)

DtLess(a, b) == TupleLess(a, b, 1)

\* datetime.isocalendar()[1], the ISO 8601 week number.
IsoWeek1Monday(y) ==
    LET firstday     == ToOrdinal(y, 1, 1)
        firstweekday == (firstday + 6) % 7
        monday       == firstday - firstweekday
    IN  IF firstweekday > 3 THEN monday + 7 ELSE monday

IsoWeek(dt) ==
    LET y     == dt[1]
        today == ToOrdinal(dt[1], dt[2], dt[3])
        off   == today - IsoWeek1Monday(y)
    IN  IF off < 0 THEN ((today - IsoWeek1Monday(y - 1)) \div 7) + 1
        ELSE IF (off \div 7) >= 52 /\ today >= IsoWeek1Monday(y + 1) THEN 1
        ELSE (off \div 7) + 1

\* dt - timedelta(days, hours): exact arithmetic on (ordinal, second of day).
MinusDaysHours(dt, days, hours) ==
    LET secs == dt[4] * 3600 + dt[5] * 60 + dt[6] - (hours % 24) * 3600
        ord0 == ToOrdinal(dt[1], dt[2], dt[3]) - days - (hours \div 24)
        ord1 == IF secs < 0 THEN ord0 - 1 ELSE ord0
        s    == IF secs < 0 THEN secs + 86400 ELSE secs
        ymd  == FromOrdinal(ord1)
    IN  <<ymd[1], ymd[2], ymd[3], s \div 3600, (s % 3600) \div 60, s % 60>>

\* dt - relativedelta(years, months): calendar-aware, the day clipped to
\* the length of the month reached.
MinusMonths(dt, months) ==
    LET total == dt[1] * 12 + (dt[2] - 1) - months
        y     == total \div 12
        m     == (total % 12) + 1
        d     == IF dt[3] > DaysInMonth(y, m) THEN DaysInMonth(y, m) ELSE dt[3]
    IN  <<y, m, d, dt[4], dt[5], dt[6]>>


(***************************************************************************)
(* Entry names, as sequences of one-character strings.                     *)
(***************************************************************************)

DigitVal ==
    ("0" :> 0) @@ ("1" :> 1) @@ ("2" :> 2) @@ ("3" :> 3) @@ ("4" :> 4) @@
    ("5" :> 5) @@ ("6" :> 6) @@ ("7" :> 7) @@ ("8" :> 8) @@ ("9" :> 9)

IsDigit(c) == c \in DOMAIN DigitVal

\* n decimal digits at position p of s (the regex atom \d{n}).
HasDigits(s, p, n) ==
    /\ p + n - 1 <= Len(s)
    /\ \A j \in p..(p + n - 1) : IsDigit(s[j])

\* int(group, 10) of the n digits at position p.
RECURSIVE Num(_, _, _)
Num(s, p, n) ==
    IF n = 0 THEN 0 ELSE Num(s, p, n - 1) * 10 + DigitVal[s[p + n - 1]]

\* The regex atom \D? : one non-digit is taken when there is one.  (Not
\* taking it would leave a non-digit in front of the digits that follow,
\* so backtracking never helps.)
SkipSep(s, p) == IF p <= Len(s) /\ ~IsDigit(s[p]) THEN p + 1 ELSE p

NoMatch == <<>>

\* TIMESTAMP_PATTERN anchored at position i; the result is
\* match.groups('0') converted with int(): <<year, month, day, hour,
\* minute, second>>, the optional groups 0 when they did not take part.
MatchAt(s, i) ==
    IF ~HasDigits(s, i, 4) THEN NoMatch
    ELSE LET pm == SkipSep(s, i + 4) IN
    IF ~HasDigits(s, pm, 2) THEN NoMatch
    ELSE LET pd == SkipSep(s, pm + 2) IN
    IF ~HasDigits(s, pd, 2) THEN NoMatch
    ELSE LET ph   == SkipSep(s, pd + 2)
             pmin == SkipSep(s, ph + 2)
             psec == SkipSep(s, pmin + 2)
             date == <<Num(s, i, 4), Num(s, pm, 2), Num(s, pd, 2)>>
         IN  IF HasDigits(s, ph, 2) /\ HasDigits(s, pmin, 2)
             THEN date \o <<Num(s, ph, 2), Num(s, pmin, 2),
                            IF HasDigits(s, psec, 2)
                            THEN Num(s, psec, 2) ELSE 0>>
             ELSE date \o <<0, 0, 0>>

\* TIMESTAMP_PATTERN.search(entry): the leftmost position that matches.
TIMESTAMP_PATTERN(s) ==
    LET hits == {i \in 1..Len(s) : MatchAt(s, i) # NoMatch}
    IN  IF hits = {} THEN NoMatch
        ELSE MatchAt(s, CHOOSE i \in hits : \A j \in hits : i <= j)

\* fnmatch.fnmatch(name, pattern) for patterns built from literals, "*"
\* and "?"; the whole name must match.
RECURSIVE Glob(_, _, _, _)
Glob(p, s, i, j) ==
    IF i > Len(p) THEN j > Len(s)
    ELSE IF p[i] = "*"
         THEN Glob(p, s, i + 1, j) \/ (j <= Len(s) /\ Glob(p, s, i, j + 1))
    ELSE IF j > Len(s) THEN FALSE
    ELSE (p[i] = "?" \/ p[i] = s[j]) /\ Glob(p, s, i + 1, j + 1)

fnmatch(name, pattern) == Glob(pattern, name, 1, 1)

\* The order natsort() gives os.listdir(): on names whose digit runs have
\* equal widths the natural order is the character order.
CharRank ==
    ("-" :> 45) @@ [c \in DOMAIN DigitVal |-> 48 + DigitVal[c]] @@
    ("a" :> 97) @@ ("b" :> 98) @@ ("e" :> 101) @@ ("n" :> 110) @@
    ("o" :> 111) @@ ("s" :> 115) @@ ("t" :> 116)

RECURSIVE NameLess(_, _, _)
NameLess(a, b, i) ==
    IF i > Len(a) THEN i <= Len(b)
    ELSE IF i > Len(b) THEN FALSE
    ELSE IF a[i] # b[i] THEN CharRank[a[i]] < CharRank[b[i]]
    ELSE NameLess(a, b, i + 1)

natsort_less(a, b) == NameLess(a, b, 1)


(***************************************************************************)
(* The entry names of the model and what the source derives from each.     *)
(***************************************************************************)

\* The characters of the entry names and patterns of the model (TLC does
\* not index a string).
Chars ==
    ("a-20140101" :> <<"a", "-", "2", "0", "1", "4", "0", "1", "0", "1">>) @@
    ("a-20141227-1200" :> <<"a", "-", "2", "0", "1", "4", "1", "2", "2", "7", "-", "1", "2", "0", "0">>) @@
    ("a-20141230-1005" :> <<"a", "-", "2", "0", "1", "4", "1", "2", "3", "0", "-", "1", "0", "0", "5">>) @@
    ("a-20141230-1055" :> <<"a", "-", "2", "0", "1", "4", "1", "2", "3", "0", "-", "1", "0", "5", "5">>) @@
    ("a-20141223-1030" :> <<"a", "-", "2", "0", "1", "4", "1", "2", "2", "3", "-", "1", "0", "3", "0">>) @@
    ("b-20141230-1005" :> <<"b", "-", "2", "0", "1", "4", "1", "2", "3", "0", "-", "1", "0", "0", "5">>) @@
    ("b-20141227-1200" :> <<"b", "-", "2", "0", "1", "4", "1", "2", "2", "7", "-", "1", "2", "0", "0">>) @@
    ("a-20141330" :> <<"a", "-", "2", "0", "1", "4", "1", "3", "3", "0">>) @@
    ("b-20141230-2500" :> <<"b", "-", "2", "0", "1", "4", "1", "2", "3", "0", "-", "2", "5", "0", "0">>) @@
    ("notes" :> <<"n", "o", "t", "e", "s">>) @@
    ("a*" :> <<"a", "*">>) @@
    ("b*" :> <<"b", "*">>) @@
    ("*1005" :> <<"*", "1", "0", "0", "5">>)

\* Entries for the rotation: two in one hour, the last weeks of a year
\* (2014-12-23 and 2014-12-27 lie in ISO week 52 of 2014, 2014-12-30 in ISO
\* week 1 of 2015, 2014-01-01 in ISO week 1 of 2014), and two names with one
\* timestamp.
RotationNames ==
    {"a-20140101", "a-20141227-1200", "a-20141230-1005", "a-20141230-1055",
     "a-20141223-1030", "b-20141230-1005"}

\* Entries for the collection: valid names, a month 13, an hour 25 and a
\* name without a timestamp.
FilterNames ==
    {"a-20141230-1005", "b-20141230-1005", "b-20141227-1200", "a-20141330",
     "b-20141230-2500", "notes"}

AllNames == RotationNames \cup FilterNames

\* match.groups('0') of every entry name, computed once.
match_groups == [e \in AllNames |-> TIMESTAMP_PATTERN(Chars[e])]

\* The datetimes of the entries datetime.datetime() accepts.
Datetimes ==
    {match_groups[e] : e \in {x \in AllNames : match_groups[x] # NoMatch
                                               /\ DatetimeValid(match_groups[x])}}

\* Backup.week of every datetime, computed once.
week == [dt \in Datetimes |-> IsoWeek(dt)]

(***************************************************************************)
(* Backup objects and the containers the pipeline builds.                  *)
(***************************************************************************)

\* Backup(pathname, datetime).  The directory is fixed, so the entry name
\* stands for os.path.join(directory, entry).
Backup(entry, dt) == [pathname |-> entry, datetime |-> dt]

\* Backup.__eq__: by datetime alone.
BackupEq(a, b) == a.datetime = b.datetime

\* Backup.__lt__: by datetime alone.
BackupLess(a, b) == DtLess(a.datetime, b.datetime)

\* Backup.__hash__: hash(self.pathname); distinct pathnames are taken to
\* hash differently.
BackupHash(b) == b.pathname

\* A lookup that trusts __eq__ alone and never consults the hash.  C4 must
\* tell it from DictContains.
DictContainsEqual(keys, b) == \E key \in keys : BackupEq(key, b)

\* key in dict: the stored key has the same hash and compares equal.
DictContains(keys, b) ==
    \E key \in keys : BackupHash(key) = BackupHash(b) /\ BackupEq(key, b)

ORDERED_FREQUENCIES == <<"hourly", "daily", "weekly", "monthly", "yearly">>

SUPPORTED_FREQUENCIES == {ORDERED_FREQUENCIES[i] : i \in DOMAIN ORDERED_FREQUENCIES}

\* A retention period: an integer count, or the string 'always'.
Count(k) == [kind |-> "count", n |-> k]
Always   == [kind |-> "always", n |-> 0]

\* The period key group_backups files a backup under (the year alone is
\* written as a one-element tuple).
PeriodKey(frequency, b) ==
    LET d == b.datetime IN
    CASE frequency = "hourly"  -> <<d[1], d[2], d[3], d[4]>>
      [] frequency = "daily"   -> <<d[1], d[2], d[3]>>
      [] frequency = "weekly"  -> <<d[1], week[d]>>
      [] frequency = "monthly" -> <<d[1], d[2]>>
      [] frequency = "yearly"  -> <<d[1]>>

\* most_recent_backup - SUPPORTED_FREQUENCIES[frequency] * retention_period
relativedelta_before(frequency, most_recent_backup, k) ==
    CASE frequency = "hourly"  -> MinusDaysHours(most_recent_backup, 0, k)
      [] frequency = "daily"   -> MinusDaysHours(most_recent_backup, k, 0)
      [] frequency = "weekly"  -> MinusDaysHours(most_recent_backup, 7 * k, 0)
      [] frequency = "monthly" -> MinusMonths(most_recent_backup, k)
      [] frequency = "yearly"  -> MinusMonths(most_recent_backup, 12 * k)

\* The same, computed once for the datetimes and counts of the model.
minimum_dates ==
    [frequency \in SUPPORTED_FREQUENCIES, dt \in Datetimes, k \in 0..MaxRetention |->
        relativedelta_before(frequency, dt, k)]

minimum_date(frequency, most_recent_backup, k) ==
    minimum_dates[frequency, most_recent_backup, k]

\* Filters where an include match admits the entry whatever the exclude
\* list says.  C7 must tell them from Filtered.
FilteredIncludeFirst(entry, include, exclude) ==
    IF include # <<>> /\ \E i \in DOMAIN include : fnmatch(Chars[entry], Chars[include[i]])
    THEN TRUE
    ELSE /\ include = <<>>
         /\ ~\E i \in DOMAIN exclude : fnmatch(Chars[entry], Chars[exclude[i]])

\* The entry passes the include and exclude lists (None and [] are both
\* false in the source's tests).
Filtered(entry, include, exclude) ==
    IF exclude # <<>> /\ \E i \in DOMAIN exclude : fnmatch(Chars[entry], Chars[exclude[i]])
    THEN FALSE
    ELSE IF include # <<>> /\ ~\E i \in DOMAIN include : fnmatch(Chars[entry], Chars[include[i]])
    THEN FALSE
    ELSE TRUE

\* The entries collect_backups builds a Backup for.
Candidates(listing, include, exclude) ==
    {e \in listing : match_groups[e] # NoMatch /\ Filtered(e, include, exclude)}

\* sorted(backups): stable, so backups of equal datetime keep the order
\* natsort gave their names.
SortsBefore(a, b) ==
    \/ BackupLess(a, b)
    \/ (~BackupLess(b, a) /\ natsort_less(Chars[a.pathname], Chars[b.pathname]))

RECURSIVE sorted(_)
sorted(S) ==
    IF S = {} THEN <<>>
    ELSE LET first == CHOOSE x \in S : \A y \in S \ {x} : SortsBefore(x, y)
         IN  <<first>> \o sorted(S \ {first})

\* collect_backups raises ValueError when datetime.datetime() rejects the
\* fields of an entry that passed the filters.
collect_raises(listing, include, exclude) ==
    \E e \in Candidates(listing, include, exclude) :
        ~DatetimeValid(match_groups[e])

collect_backups(listing, include, exclude) ==
    sorted({Backup(e, match_groups[e]) :
                e \in Candidates(listing, include, exclude)})

\* A dict keyed by frequency, built from its five values.
ByFrequency(Value(_)) ==
    ("hourly" :> Value("hourly")) @@ ("daily" :> Value("daily")) @@
    ("weekly" :> Value("weekly")) @@ ("monthly" :> Value("monthly")) @@
    ("yearly" :> Value("yearly"))

\* A dict of periods is the set of its items, [period, backups]: a period
\* key and the list of the backups filed under it.
Periods(items) == {it.period : it \in items}

\* group_backups: per frequency, the dict from period key to the list of
\* the backups of that period, in the order of the sorted input.
group_backups(backups) ==
    ByFrequency(LAMBDA frequency :
        {[period  |-> p,
          backups |-> SelectSeq(backups, LAMBDA b : PeriodKey(frequency, b) = p)] :
            p \in {PeriodKey(frequency, backups[i]) : i \in DOMAIN backups}})

\* sorted(backups_in_period)[-1], the newest backup of the period.  C10
\* must tell it from first_backup.
last_backup(backups_in_period) ==
    backups_in_period[
        CHOOSE i \in DOMAIN backups_in_period :
            \A j \in DOMAIN backups_in_period :
                ~BackupLess(backups_in_period[i], backups_in_period[j])]

\* sorted(backups_in_period)[0]: the first backup no other is less than.
first_backup(backups_in_period) ==
    backups_in_period[
        CHOOSE i \in DOMAIN backups_in_period :
            /\ \A j \in DOMAIN backups_in_period :
                   ~BackupLess(backups_in_period[j], backups_in_period[i])
            /\ \A j \in 1..(i - 1) :
                   BackupLess(backups_in_period[i], backups_in_period[j])]

\* Lines 258-260: every period reduced to its first backup.
Reduce(items) ==
    {[period |-> it.period, backups |-> <<first_backup(it.backups)>>] : it \in items}

\* Lines 267-272: a backup before the minimum date is removed from its
\* (one-element) list and the period left empty is popped.
Age(items, min_date) ==
    {it \in items : ~DtLess(it.backups[1].datetime, min_date)}

\* The order of the (period, backups) items: by period key, a tuple.
KeyLess(p, q) == TupleLess(p, q, 1)

\* Lines 275-276: sorted(backups.items())[-retention_period:], the items
\* ordered by period key ([-0:] is the whole list).
Cap(items, k) ==
    {it \in items :
        \/ k = 0
        \/ Cardinality({q \in items : KeyLess(it.period, q.period)}) < k}

\* apply_rotation_scheme without the test for 'always' at line 263: the
\* value is used as a count like any other.  C6 must tell it from Stages.
StagesWithoutAlways(scheme, frequency, items, most_recent_backup) ==
    IF frequency \notin DOMAIN scheme
    THEN [reduced |-> {}, aged |-> {}, capped |-> {}]
    ELSE LET r == Reduce(items)
             a == Age(r, minimum_date(frequency, most_recent_backup,
                                      scheme[frequency].n))
         IN  [reduced |-> r, aged |-> a, capped |-> Cap(a, scheme[frequency].n)]

\* apply_rotation_scheme for one frequency: the dict of its periods after
\* the reduction, after the removal of the old periods, and at the end.
\* A frequency the scheme does not name is cleared (line 254).
Stages(scheme, frequency, items, most_recent_backup) ==
    IF frequency \notin DOMAIN scheme
    THEN [reduced |-> {}, aged |-> {}, capped |-> {}]
    ELSE LET r == Reduce(items)
             retention_period == scheme[frequency]
         IN  IF retention_period = Always
             THEN [reduced |-> r, aged |-> r, capped |-> r]
             ELSE LET a == Age(r, minimum_date(frequency, most_recent_backup,
                                               retention_period.n))
                  IN  [reduced |-> r, aged |-> a,
                       capped |-> Cap(a, retention_period.n)]

AllStages(scheme, backups_by_frequency, most_recent_backup) ==
    ByFrequency(LAMBDA frequency :
        Stages(scheme, frequency, backups_by_frequency[frequency],
               most_recent_backup))

\* Line 272 pops a period while line 267 iterates backups.items(): where
\* items() is a view of the dict the next step of the iteration raises
\* RuntimeError, where it is a list the loop goes on.
apply_pops(scheme, backups_by_frequency, most_recent_backup) ==
    \E frequency \in DOMAIN scheme :
        /\ scheme[frequency] # Always
        /\ \E it \in backups_by_frequency[frequency] :
               DtLess(first_backup(it.backups).datetime,
                      minimum_date(frequency, most_recent_backup,
                                   scheme[frequency].n))

\* find_preservation_criteria: the dict as the set of its items, [backup,
\* matching_periods]: a backup left in some period and the frequencies it
\* is left under, in the order of ORDERED_FREQUENCIES.
find_preservation_criteria(backups_by_frequency) ==
    LET kept == ByFrequency(LAMBDA frequency :
                    {it.backups[1] : it \in backups_by_frequency[frequency]})
    IN  {[backup |-> b,
          matching_periods |-> SelectSeq(ORDERED_FREQUENCIES, LAMBDA f : b \in kept[f])] :
            b \in UNION {kept[f] : f \in SUPPORTED_FREQUENCIES}}

(***************************************************************************)
(* The inputs: directory listings, rotation schemes, pattern lists.        *)
(***************************************************************************)

IncludeLists == {<<>>, <<"a*">>, <<"*1005", "b*">>}
ExcludeLists == {<<>>, <<"b*">>, <<"*1005">>}

Listings(names) == {S \in SUBSET names : Cardinality(S) <= MaxBackups}

RetentionPeriods == {Count(k) : k \in 1..MaxRetention} \cup {Always}

Schemes ==
    UNION {[fs -> RetentionPeriods] :
               fs \in {F \in SUBSET SUPPORTED_FREQUENCIES : Cardinality(F) <= MaxTiers}}

FilterSchemes == {[f \in {"daily"} |-> Count(1)], [f \in {"yearly"} |-> Always]}

\* The rotations are run for real; the collections also as dry runs.
Inputs ==
    [directory : Listings(RotationNames), scheme : Schemes,
     include : {<<>>}, exclude : {<<>>}, dry_run : {FALSE}]
    \cup
    [directory : Listings(FilterNames), scheme : FilterSchemes,
     include : IncludeLists, exclude : ExcludeLists, dry_run : BOOLEAN]

(***************************************************************************)
(* The state: the directory, the fields of the RotateBackups object, and   *)
(* the locals of rotate_backups.                                           *)
(***************************************************************************)

VARIABLES
    directory,            \* the entries the directory holds
    rotation_scheme, include_list, exclude_list, dry_run,
    pc,                   \* start, grouped, rotating, done, raised
    exception,            \* the exception that left rotate_backups, or "None"
    rerun,                \* rotate_backups was called on this directory before
    listing,              \* os.listdir(directory) of this call
    sorted_backups,
    grouped,              \* backups_by_frequency as group_backups returned it
    reduced,              \* ... after the reduction of every period
    aged,                 \* ... after the removal of the old periods
    backups_by_frequency, \* ... as apply_rotation_scheme left it
    backups_to_preserve,
    idx,                  \* the position of the removal loop
    log,                  \* the Preserving / Deleting messages, in order
    invoked,              \* the pathnames rm -Rf was executed on, in order
    nothing_to_do,        \* the final message was logged
    prev_preserved        \* the pathnames the previous call preserved

config == <<rotation_scheme, include_list, exclude_list, dry_run>>
locals == <<listing, sorted_backups, grouped, reduced, aged,
            backups_by_frequency, backups_to_preserve, idx>>
vars == <<directory, config, pc, exception, rerun, locals, log, invoked, nothing_to_do,
          prev_preserved>>

NoLocals ==
    /\ sorted_backups' = <<>>
    /\ grouped' = << >> /\ reduced' = << >> /\ aged' = << >>
    /\ backups_by_frequency' = << >>
    /\ backups_to_preserve' = {}
    /\ idx' = 0

Init ==
    /\ \E inp \in Inputs :
        /\ directory = inp.directory
        /\ rotation_scheme = inp.scheme
        /\ include_list = inp.include
        /\ exclude_list = inp.exclude
        /\ dry_run = inp.dry_run
    /\ pc = "start"
    /\ exception = "None"
    /\ rerun = FALSE
    /\ listing = {}
    /\ sorted_backups = <<>>
    /\ grouped = << >> /\ reduced = << >> /\ aged = << >>
    /\ backups_by_frequency = << >>
    /\ backups_to_preserve = {}
    /\ idx = 0
    /\ log = <<>>
    /\ invoked = <<>>
    /\ nothing_to_do = FALSE
    /\ prev_preserved = {}

\* Line 157: datetime.datetime() raises ValueError out of collect_backups
\* and out of rotate_backups.
CollectRaises ==
    /\ pc = "start"
    /\ collect_raises(directory, include_list, exclude_list)
    /\ pc' = "raised"
    /\ exception' = "ValueError"
    /\ listing' = directory
    /\ NoLocals
    /\ UNCHANGED <<directory, config, rerun, log, invoked, nothing_to_do, prev_preserved>>

\* Lines 157-160: nothing collected, the call returns.
NoBackups ==
    /\ pc = "start"
    /\ ~collect_raises(directory, include_list, exclude_list)
    /\ collect_backups(directory, include_list, exclude_list) = <<>>
    /\ pc' = "done"
    /\ listing' = directory
    /\ NoLocals
    /\ UNCHANGED <<directory, config, exception, rerun, log, invoked, nothing_to_do,
                   prev_preserved>>

\* Lines 157-163: the backups are collected, sorted and grouped.
Collect ==
    /\ pc = "start"
    /\ ~collect_raises(directory, include_list, exclude_list)
    /\ LET backups == collect_backups(directory, include_list, exclude_list)
       IN  /\ backups # <<>>
           /\ sorted_backups' = backups
           /\ grouped' = group_backups(backups)
    /\ listing' = directory
    /\ pc' = "grouped"
    /\ UNCHANGED <<directory, config, exception, rerun, reduced, aged, backups_by_frequency,
                   backups_to_preserve, idx, log, invoked, nothing_to_do,
                   prev_preserved>>

most_recent_backup == sorted_backups[Len(sorted_backups)]

\* Line 165 where backups.items() is a view: a period popped in the middle
\* of the iteration raises RuntimeError out of rotate_backups.
ApplyRaises ==
    /\ pc = "grouped"
    /\ apply_pops(rotation_scheme, grouped, most_recent_backup.datetime)
    /\ pc' = "raised"
    /\ exception' = "RuntimeError"
    /\ NoLocals
    /\ UNCHANGED <<directory, config, rerun, listing, log, invoked, nothing_to_do,
                   prev_preserved>>

\* Lines 165-167: the scheme is applied and the criteria are found.
Apply ==
    /\ pc = "grouped"
    /\ \E st \in {AllStages(rotation_scheme, grouped, most_recent_backup.datetime)} :
       \E final \in {ByFrequency(LAMBDA f : st[f].capped)} :
           /\ reduced' = ByFrequency(LAMBDA f : st[f].reduced)
           /\ aged' = ByFrequency(LAMBDA f : st[f].aged)
           /\ backups_by_frequency' = final
           /\ backups_to_preserve' = find_preservation_criteria(final)
    /\ idx' = 1
    /\ pc' = "rotating"
    /\ UNCHANGED <<directory, config, exception, rerun, listing, sorted_backups, grouped,
                   log, invoked, nothing_to_do, prev_preserved>>

Current == sorted_backups[idx]

InMap(b) == DictContains({it.backup : it \in backups_to_preserve}, b)

Looping == pc = "rotating" /\ idx <= Len(sorted_backups)

\* Lines 170-174: the backup is a key of backups_to_preserve.
Preserve ==
    /\ Looping
    /\ InMap(Current)
    /\ log' = Append(log, [op |-> "Preserving", pathname |-> Current.pathname])
    /\ idx' = idx + 1
    /\ UNCHANGED <<directory, config, pc, exception, rerun, listing, sorted_backups, grouped,
                   reduced, aged, backups_by_frequency, backups_to_preserve,
                   invoked, nothing_to_do, prev_preserved>>

\* Lines 175-177 with dry_run: the message only.
DeleteDryRun ==
    /\ Looping
    /\ ~InMap(Current)
    /\ dry_run
    /\ log' = Append(log, [op |-> "Deleting", pathname |-> Current.pathname])
    /\ idx' = idx + 1
    /\ UNCHANGED <<directory, config, pc, exception, rerun, listing, sorted_backups, grouped,
                   reduced, aged, backups_by_frequency, backups_to_preserve,
                   invoked, nothing_to_do, prev_preserved>>

\* Lines 175-183: rm -Rf is executed and succeeds.
Delete ==
    /\ Looping
    /\ ~InMap(Current)
    /\ ~dry_run
    /\ log' = Append(log, [op |-> "Deleting", pathname |-> Current.pathname])
    /\ invoked' = Append(invoked, Current.pathname)
    /\ directory' = directory \ {Current.pathname}
    /\ idx' = idx + 1
    /\ UNCHANGED <<config, pc, exception, rerun, listing, sorted_backups, grouped,
                   reduced, aged, backups_by_frequency, backups_to_preserve,
                   nothing_to_do, prev_preserved>>

\* A failed rm -Rf that is noted while the loop goes on to the next
\* backup.  C5 must tell it from DeleteFails.
DeleteFailsGoesOn ==
    /\ Looping
    /\ ~InMap(Current)
    /\ ~dry_run
    /\ log' = Append(log, [op |-> "Deleting", pathname |-> Current.pathname])
    /\ invoked' = Append(invoked, Current.pathname)
    /\ exception' = "ExternalCommandFailed"
    /\ idx' = idx + 1
    /\ UNCHANGED <<directory, config, pc, rerun, listing, sorted_backups, grouped,
                   reduced, aged, backups_by_frequency, backups_to_preserve,
                   nothing_to_do, prev_preserved>>

\* Lines 175-182: rm -Rf is executed and fails; execute() raises and the
\* exception leaves rotate_backups.
DeleteFails ==
    /\ Looping
    /\ ~InMap(Current)
    /\ ~dry_run
    /\ log' = Append(log, [op |-> "Deleting", pathname |-> Current.pathname])
    /\ invoked' = Append(invoked, Current.pathname)
    /\ pc' = "raised"
    /\ exception' = "ExternalCommandFailed"
    /\ UNCHANGED <<directory, config, rerun, locals, nothing_to_do, prev_preserved>>

\* Lines 184-185: the loop is over.
Finish ==
    /\ pc = "rotating"
    /\ idx > Len(sorted_backups)
    /\ nothing_to_do' = (Cardinality(backups_to_preserve) = Len(sorted_backups))
    /\ pc' = "done"
    /\ UNCHANGED <<directory, config, exception, rerun, locals, log, invoked,
                   prev_preserved>>

Preserved == {log[i].pathname : i \in {j \in DOMAIN log : log[j].op = "Preserving"}}

\* rotate_backups is called again on the directory as the completed call
\* left it, with the same object.
Rerun ==
    /\ pc = "done"
    /\ ~dry_run
    /\ sorted_backups # <<>>
    /\ rerun' = TRUE
    /\ prev_preserved' = Preserved
    /\ pc' = "start"
    /\ listing' = {}
    /\ NoLocals
    /\ log' = <<>>
    /\ invoked' = <<>>
    /\ nothing_to_do' = FALSE
    /\ UNCHANGED <<directory, config, exception>>

Next ==
    \/ CollectRaises
    \/ NoBackups
    \/ Collect
    \/ ApplyRaises
    \/ Apply
    \/ Preserve
    \/ DeleteDryRun
    \/ Delete
    \/ DeleteFails
    \/ Finish
    \/ Rerun

Spec == Init /\ [][Next]_vars

(***************************************************************************)
(* The claims.                                                             *)
(***************************************************************************)

\* apply_rotation_scheme and find_preservation_criteria have returned in
\* this call.
Applied == idx > 0

Rep(it) == it.backups[1]

\* The entry has a timestamp datetime.datetime() accepts.
Parseable(e) == match_groups[e] # NoMatch /\ DatetimeValid(match_groups[e])

IsCollected(e) == \E i \in DOMAIN sorted_backups : sorted_backups[i].pathname = e

\* C1: for every frequency with a finite count k, when N >= k periods
\* survive the aging exactly k periods are left after the cap, and every
\* period left has a later representative than every period the cap dropped.
C1_CapKeepsMostRecentPeriods ==
    Applied =>
        \A f \in DOMAIN rotation_scheme :
            (rotation_scheme[f] # Always
             /\ Cardinality(aged[f]) >= rotation_scheme[f].n) =>
                /\ Cardinality(backups_by_frequency[f]) = rotation_scheme[f].n
                /\ backups_by_frequency[f] \subseteq aged[f]
                /\ \A kept \in backups_by_frequency[f] :
                       \A dropped \in aged[f] \ backups_by_frequency[f] :
                           DtLess(Rep(dropped).datetime, Rep(kept).datetime)

\* C2: a call on the directory a completed call left deletes no backup the
\* completed call preserved.
C2_SecondRunKeepsPreserved ==
    rerun =>
        \A i \in DOMAIN log :
            log[i].op = "Deleting" => log[i].pathname \notin prev_preserved

\* C3: with a calendar-invalid entry in the listing collect_backups raises
\* nothing and every entry with a valid timestamp that passes the filters
\* is collected.
C3_InvalidDateIsSkipped ==
    (pc # "start"
     /\ \E e \in listing : match_groups[e] # NoMatch /\ ~DatetimeValid(match_groups[e])) =>
        /\ exception # "ValueError"
        /\ exception = "None" =>
               \A e \in listing :
                   (Parseable(e) /\ Filtered(e, include_list, exclude_list)) =>
                       IsCollected(e)

\* C8: when a backup is collected and the scheme names a frequency, at
\* least one collected backup is preserved.
C8_SomeBackupPreserved ==
    (Applied /\ DOMAIN rotation_scheme # {}) =>
        \E i \in DOMAIN sorted_backups : InMap(sorted_backups[i])

\* C9: two collected backups of one timestamp get the same classification.
C9_EqualTimestampsSameClassification ==
    \A i \in DOMAIN log : \A j \in DOMAIN log :
        match_groups[log[i].pathname] = match_groups[log[j].pathname] =>
            log[i].op = log[j].op

\* The call got past collect_backups and its locals are still there.
Collected == pc \in {"grouped", "rotating", "done"} \/ exception = "ExternalCommandFailed"

Matches(e, patterns) ==
    \E i \in DOMAIN patterns : fnmatch(Chars[e], Chars[patterns[i]])

\* The frequencies under which the backup is left in a period of
\* backups_by_frequency.
Votes(b) ==
    {f \in SUPPORTED_FREQUENCIES :
        \E it \in backups_by_frequency[f] :
            \E j \in DOMAIN it.backups : it.backups[j] = b}

Times(seq, x) == Cardinality({j \in DOMAIN seq : seq[j] = x})

Pos(pathname) ==
    CHOOSE i \in DOMAIN sorted_backups : sorted_backups[i].pathname = pathname

\* C4: when a call that is no dry run returns, rm -Rf was executed exactly
\* once on every collected backup left in no period and never on a backup
\* left in some period; every collected backup has one message, Preserving
\* or Deleting, and only the backups with a Deleting message left the
\* directory.
C4_ClassifiedExactlyOnce ==
    (pc = "done" /\ ~dry_run) =>
        \A i \in DOMAIN sorted_backups :
            LET b == sorted_backups[i]
                doomed == Votes(b) = {}
            IN  /\ Times(invoked, b.pathname) = (IF doomed THEN 1 ELSE 0)
                /\ Times(log, [op |-> "Deleting", pathname |-> b.pathname])
                       = (IF doomed THEN 1 ELSE 0)
                /\ Times(log, [op |-> "Preserving", pathname |-> b.pathname])
                       = (IF doomed THEN 0 ELSE 1)
                /\ (b.pathname \in directory) = ~doomed

\* A call has returned after removing one backup and preserving another.
C4_Witness ==
    /\ pc = "done" /\ ~dry_run
    /\ \E i \in DOMAIN sorted_backups : \E j \in DOMAIN sorted_backups :
        /\ Votes(sorted_backups[i]) = {}
        /\ Cardinality(Votes(sorted_backups[j])) >= 2
        /\ sorted_backups[i].pathname \notin directory

\* C5: rm -Rf is executed in the order of sorted_backups, ascending by
\* timestamp; when an execution fails the call ends with the failed backup
\* the last one rm -Rf was executed on, no later backup is touched, and
\* the backups removed before stay removed.
C5_RemovalsInOrderAndStopAtFailure ==
    /\ \A i \in DOMAIN invoked : \A j \in DOMAIN invoked :
           i < j => /\ Pos(invoked[i]) < Pos(invoked[j])
                    /\ ~BackupLess(sorted_backups[Pos(invoked[j])],
                                   sorted_backups[Pos(invoked[i])])
    /\ exception = "ExternalCommandFailed" =>
           /\ pc = "raised"
           /\ invoked # <<>>
           /\ invoked[Len(invoked)] = sorted_backups[idx].pathname
           /\ \A j \in 1..(Len(invoked) - 1) : invoked[j] \notin directory
           /\ \A i \in (idx + 1)..Len(sorted_backups) :
                  /\ Times(invoked, sorted_backups[i].pathname) = 0
                  /\ sorted_backups[i].pathname \in directory
                  /\ \A j \in DOMAIN log : log[j].pathname # sorted_backups[i].pathname

\* The second removal failed after the first succeeded, with a backup
\* still to come.
C5_Witness ==
    /\ exception = "ExternalCommandFailed"
    /\ Len(invoked) = 2
    /\ invoked[1] \notin directory
    /\ idx < Len(sorted_backups)

\* C6: for a frequency whose retention period is 'always' the period keys
\* after apply_rotation_scheme are the period keys group_backups made.
C6_AlwaysRemovesNoPeriod ==
    Applied =>
        \A f \in DOMAIN rotation_scheme :
            rotation_scheme[f] = Always =>
                Periods(backups_by_frequency[f]) = Periods(grouped[f])

\* A frequency with 'always' kept three periods where a count of one would
\* have aged one out, next to a frequency whose count removed a period.
C6_Witness ==
    /\ Applied
    /\ \E f \in DOMAIN rotation_scheme :
        /\ rotation_scheme[f] = Always
        /\ Cardinality(Periods(backups_by_frequency[f])) = 3
        /\ \E it \in backups_by_frequency[f] :
               DtLess(Rep(it).datetime,
                      minimum_date(f, most_recent_backup.datetime, 1))
    /\ \E g \in DOMAIN rotation_scheme :
        /\ rotation_scheme[g] # Always
        /\ Periods(backups_by_frequency[g]) # Periods(grouped[g])

\* C7: an entry with a parseable timestamp is collected exactly when it
\* matches no exclude pattern and the include list is empty or has a
\* pattern it matches; so an exclude match keeps it out whatever it
\* matches in the include list.
C7_ExcludeOverridesInclude ==
    Collected =>
        \A e \in listing :
            Parseable(e) =>
                (IsCollected(e) <=>
                    /\ ~Matches(e, exclude_list)
                    /\ (include_list = <<>> \/ Matches(e, include_list)))

\* An entry matching an include and an exclude pattern was left out while
\* another entry was collected.
C7_Witness ==
    /\ Collected
    /\ sorted_backups # <<>>
    /\ \E e \in listing :
        /\ Parseable(e)
        /\ Matches(e, include_list)
        /\ Matches(e, exclude_list)
        /\ ~IsCollected(e)

\* C10: for every frequency of the scheme, after the reduction every
\* period group_backups made holds exactly one backup, a backup of that
\* period that none of the period is older than; the aging and the cap
\* only take whole reduced periods away.
C10_ReductionKeepsOldest ==
    Applied =>
        \A f \in DOMAIN rotation_scheme :
            /\ Periods(reduced[f]) = Periods(grouped[f])
            /\ Cardinality(reduced[f]) = Cardinality(grouped[f])
            /\ \A it \in reduced[f] :
                   /\ Len(it.backups) = 1
                   /\ \E g \in grouped[f] :
                          /\ g.period = it.period
                          /\ \E j \in DOMAIN g.backups : g.backups[j] = Rep(it)
                          /\ \A j \in DOMAIN g.backups :
                                 ~BackupLess(g.backups[j], Rep(it))
            /\ aged[f] \subseteq reduced[f]
            /\ backups_by_frequency[f] \subseteq aged[f]

\* A period of three backups, not all of one timestamp, was reduced.
C10_Witness ==
    /\ Applied
    /\ \E f \in DOMAIN rotation_scheme :
        \E g \in grouped[f] :
            /\ Len(g.backups) = 3
            /\ BackupLess(g.backups[1], g.backups[3])
            /\ \E it \in reduced[f] : it.period = g.period /\ Rep(it) = g.backups[1]

====
